---- MODULE Spec2Model ----
(***************************************************************************)
(* Model of mgorny/pep517-stats: the build-backend classification of       *)
(* 03_analyze.py and the aggregations of 04_count.py / 06_count.py.        *)
(*                                                                         *)
(* Python str / bytes values that the code searches, joins or strips are   *)
(* modelled character by character: a TLA+ string names the value and      *)
(* CharTable gives its characters.                                         *)
(***************************************************************************)
EXTENDS Integers, Sequences, FiniteSets, TLC

VARIABLES
    BACKEND_FAMILIES,                 \* 03_analyze.py: the registry, in dict order
    backend_to_family_mapping,        \* 03_analyze.py main: the inverted registry
    build_backend_families,           \* main of each script: family -> backend -> count
    setuptools_formats,               \* main of each script: tuple(formats) -> count
    setuptools_wheel_deps,            \* main of each script: counter
    other_backends_using_setuptools,  \* main of each script: family -> count
    dependencies,                     \* 06_count.py main: name -> family -> DepCount
    total_dependencies,               \* 06_count.py main: name -> count
    packages,                         \* 04_count.py / 06_count.py: packages.values()
    ndists,                           \* 03_analyze.py: directories taken from iterdir()
    dist,                             \* 03_analyze.py: what was read from the directory
    family,                           \* 03_analyze.py main: local `family`
    backend,                          \* 03_analyze.py main: local `backend`
    formats,                          \* 03_analyze.py main: local `formats`
    script,                           \* the script that is run: one per behaviour
    pc,                               \* "start", "loop", "done" or "failed"
    error,                            \* the exception that ended the run, if any
    sdist_files,                      \* 01_download_pypi_packages.py: data/pypi/{filename}
    num,                              \* 01_download_pypi_packages.py main: packages passed
    retrieved,                        \* history: urlretrieve was called for the package
    out_files,                        \* 04_get_build_requires.py: out_dir / {dist}.out
    err_files,                        \* 04_get_build_requires.py: out_dir / {dist}.err
    task,                             \* 04_get_build_requires.py: where process(dist) is
    subp                              \* 04_get_build_requires.py process: subp.returncode

counters == <<build_backend_families, setuptools_formats, setuptools_wheel_deps,
              other_backends_using_setuptools>>

vars == <<BACKEND_FAMILIES, backend_to_family_mapping, build_backend_families,
          setuptools_formats, setuptools_wheel_deps,
          other_backends_using_setuptools, dependencies, total_dependencies,
          packages, ndists, dist, family, backend, formats, script, pc, error,
          sdist_files, num, retrieved, out_files, err_files, task, subp>>

\* the files and the loop of 01_download_pypi_packages.py
downloads == <<sdist_files, num, retrieved>>

\* the files and workers of 04_get_build_requires.py
hooks == <<out_files, err_files, task, subp>>

\* the files, loops and workers of the batch scripts
batch == <<downloads, hooks>>

\* what only 03_analyze.py writes
analysis == <<BACKEND_FAMILIES, backend_to_family_mapping, ndists, dist, family,
              backend, formats>>

----------------------------------------------------------------------------
(* Bounds of the model *)

\* directories of unpacked_data processed in one run of 03_analyze.py
MaxDists == 1

\* records in the packages.json given to 04_count.py / 06_count.py
MaxPackages == 3

\* families of a registry given to the inversion
MaxFamilies == 2

\* identifiers listed by one family of such a registry
MaxMembers == 2

----------------------------------------------------------------------------
(* Python values *)

\* Python's None where a str is expected (build-backend)
None == "<None>"

\* Optional[list]: None, or a list
NoneList == [none |-> TRUE, items |-> <<>>]
List(l) == [none |-> FALSE, items |-> l]

\* Truthy, were only None false
TruthyNotNone(l) == ~l.none

\* truth value of an Optional[list]: None and [] are false
Truthy(l) == ~l.none /\ Len(l.items) > 0

\* `l or []`
OrEmpty(l) == IF Truthy(l) THEN l.items ELSE <<>>

\* an empty dict / defaultdict
EmptyDict == <<>>

\* d[k] = v
Put(d, k, v) == [x \in (DOMAIN d) \cup {k} |-> IF x = k THEN v ELSE d[x]]

\* Inc, were the count assigned instead of added to
IncAssigns(d, k) == Put(d, k, 1)

\* defaultdict(int): d[k] += 1
Inc(d, k) == Put(d, k, (IF k \in DOMAIN d THEN d[k] ELSE 0) + 1)

\* Inc2, were the row of k1 made anew at every increment
Inc2FreshRow(d, k1, k2) == Put(d, k1, Inc(EmptyDict, k2))

\* defaultdict(lambda: defaultdict(int)): d[k1][k2] += 1
Inc2(d, k1, k2) == Put(d, k1, Inc(IF k1 \in DOMAIN d THEN d[k1] ELSE EmptyDict, k2))

\* defaultdict(int) read without insertion
Get(d, k) == IF k \in DOMAIN d THEN d[k] ELSE 0

Get2(d, k1, k2) == IF k1 \in DOMAIN d THEN Get(d[k1], k2) ELSE 0

----------------------------------------------------------------------------
(* Text *)

CharTable ==
    ("setuptools" :> <<"s","e","t","u","p","t","o","o","l","s">>) @@
    ("poetry" :> <<"p","o","e","t","r","y">>) @@
    ("flit" :> <<"f","l","i","t">>) @@
    ("maturin" :> <<"m","a","t","u","r","i","n">>) @@
    ("hatchling" :> <<"h","a","t","c","h","l","i","n","g">>) @@
    ("pdm" :> <<"p","d","m">>) @@
    ("scikit-build-core" :> <<"s","c","i","k","i","t","-","b","u","i","l","d","-","c","o","r","e">>) @@
    ("mesonpy" :> <<"m","e","s","o","n","p","y">>) @@
    ("whey" :> <<"w","h","e","y">>) @@
    ("jupyter-packaging" :> <<"j","u","p","y","t","e","r","-","p","a","c","k","a","g","i","n","g">>) @@
    ("sipbuild" :> <<"s","i","p","b","u","i","l","d">>) @@
    ("sphinx-theme-builder" :> <<"s","p","h","i","n","x","-","t","h","e","m","e","-","b","u","i","l","d","e","r">>) @@
    ("pbr" :> <<"p","b","r">>) @@
    ("wheel" :> <<"w","h","e","e","l">>) @@
    ("setuptools>=61" :> <<"s","e","t","u","p","t","o","o","l","s",">","=","6","1">>) @@
    ("setuptools-scm" :> <<"s","e","t","u","p","t","o","o","l","s","-","s","c","m">>) @@
    ("pdm-backend" :> <<"p","d","m","-","b","a","c","k","e","n","d">>) @@
    ("Cython" :> <<"C","y","t","h","o","n">>) @@
    ("[metadata]" :> <<"[","m","e","t","a","d","a","t","a","]">>) @@
    ("[metadata]\n" :> <<"[","m","e","t","a","d","a","t","a","]","\n">>) @@
    ("  [metadata] \n" :> <<" "," ","[","m","e","t","a","d","a","t","a","]"," ","\n">>) @@
    ("[options]\n" :> <<"[","o","p","t","i","o","n","s","]","\n">>) @@
    ("# [metadata]\n" :> <<"#"," ","[","m","e","t","a","d","a","t","a","]","\n">>) @@
    ("wheel\n" :> <<"w","h","e","e","l","\n">>) @@
    ("Cython numpy" :> <<"C","y","t","h","o","n"," ","n","u","m","p","y">>)

\* the characters of a str / bytes value
Chars(s) == CharTable[s]

\* sep.join(strs), as characters
RECURSIVE Join(_, _)
Join(sep, strs) ==
    IF Len(strs) = 0 THEN <<>>
    ELSE IF Len(strs) = 1 THEN Chars(strs[1])
    ELSE Chars(strs[1]) \o sep \o Join(sep, Tail(strs))

\* `needle in hay` for str
Contains(needle, hay) ==
    \E k \in 1..(Len(hay) - Len(needle) + 1) :
        SubSeq(hay, k, k + Len(needle) - 1) = needle

\* the bytes that bytes.strip() removes
Whitespace == {" ", "\t", "\n", "\r"}

RECURSIVE LStrip(_)
LStrip(cs) ==
    IF Len(cs) > 0 /\ cs[1] \in Whitespace THEN LStrip(Tail(cs)) ELSE cs

RECURSIVE RStrip(_)
RStrip(cs) ==
    IF Len(cs) > 0 /\ cs[Len(cs)] \in Whitespace
    THEN RStrip(SubSeq(cs, 1, Len(cs) - 1)) ELSE cs

\* bytes.strip()
Strip(cs) == RStrip(LStrip(cs))

----------------------------------------------------------------------------
(* 03_analyze.py: the registry *)

\* BACKEND_FAMILIES as written in the source: (family, members) in dict order
Registry ==
    << <<"setuptools", <<None, "setuptools.build_meta",
                         "setuptools.build_meta:__legacy__">> >>,
       <<"poetry", <<"poetry.core.masonry.api", "poetry.masonry.api",
                     "poetry_dynamic_versioning.backend">> >>,
       <<"flit", <<"flit_core.buildapi", "flit.buildapi", "flit_scm:buildapi",
                   "flit_gettext.scm">> >>,
       <<"maturin", <<"maturin">> >>,
       <<"hatchling", <<"hatchling.build", "hatchling.ouroboros">> >>,
       <<"pdm", <<"pdm.backend", "pdm.pep517.api", "pdm.backend.intree">> >>,
       <<"scikit-build-core", <<"scikit_build_core.build">> >>,
       <<"mesonpy", <<"mesonpy">> >>,
       <<"whey", <<"whey">> >>,
       <<"jupyter-packaging", <<"jupyter_packaging.build_api">> >>,
       <<"sipbuild", <<"sipbuild.api">> >>,
       <<"sphinx-theme-builder", <<"sphinx_theme_builder">> >>,
       <<"pbr", <<"pbr.build">> >> >>

\* the families of a registry, in order
Families(reg) == [k \in 1..Len(reg) |-> reg[k][1]]

\* the families of a registry that list the identifier
Claimants(reg, member) ==
    {k \in 1..Len(reg) : \E j \in 1..Len(reg[k][2]) : reg[k][2][j] = member}

\* every identifier of a registry
Members(reg) ==
    UNION {{reg[k][2][j] : j \in 1..Len(reg[k][2])} : k \in 1..Len(reg)}

\* InvertMembers, were the None member left out of the mapping
RECURSIVE InvertMembersSkipsNone(_, _, _)
InvertMembersSkipsNone(mapping, fam, members) ==
    IF Len(members) = 0 THEN mapping
    ELSE InvertMembersSkipsNone(
             IF members[1] = None THEN mapping
             ELSE Put(mapping, members[1], fam),
             fam, Tail(members))

\* 03_analyze.py:67-68, the inner loop: one family's members, in list order
RECURSIVE InvertMembers(_, _, _)
InvertMembers(mapping, fam, members) ==
    IF Len(members) = 0 THEN mapping
    ELSE InvertMembers(Put(mapping, members[1], fam), fam, Tail(members))

\* 03_analyze.py:65-68: backend_to_family_mapping built from the registry;
\* a member listed twice keeps the family written last, nothing is asserted
RECURSIVE InvertRegistry(_, _)
InvertRegistry(mapping, reg) ==
    IF Len(reg) = 0 THEN mapping
    ELSE InvertRegistry(InvertMembers(mapping, reg[1][1], reg[1][2]), Tail(reg))

----------------------------------------------------------------------------
(* 03_analyze.py: what a package directory can hold *)

\* build-backend values: every registry identifier and one unregistered name
BackendInputs == Members(Registry) \cup {"my_backend"}

\* backend-path values: absent, empty, one entry
BackendPathInputs == {NoneList, List(<<>>), List(<<".">>)}

\* requires values: absent, empty, and lists over the strings of CharTable
RequiresInputs ==
    {NoneList, List(<<>>),
     List(<<"Cython">>),
     List(<<"Cython numpy">>),
     List(<<"setuptools>=61", "wheel">>),
     List(<<"setuptools-scm", "Cython">>),
     List(<<"pdm-backend">>),
     List(<<"setuptools>=61", "pdm-backend">>)}

\* BuildSystem tuples that read_pyproject_toml can return
BuildSystems ==
    [build_backend : BackendInputs, backend_path : BackendPathInputs,
     requires : RequiresInputs, has_pep621 : BOOLEAN]

\* setup.cfg: missing, or its lines (bytes, with their line ends)
MissingFile == [exists |-> FALSE, lines |-> <<>>]
File(lines) == [exists |-> TRUE, lines |-> lines]

SetupCfgInputs ==
    {MissingFile,
     File(<<"# [metadata]\n", "[options]\n">>),
     File(<<"[options]\n", "  [metadata] \n">>),
     File(<<"[metadata]\n", "[options]\n", "[metadata]\n">>)}

----------------------------------------------------------------------------
(* 03_analyze.py: classification, main lines 78-96 *)

NoError == [type |-> "", message |-> "", line |-> 0]

Unclassified == [type |-> "AssertionError",
                 message |-> "Unclassified public backend", line |-> 84]

MultipleMatched == [type |-> "AssertionError",
                    message |-> "Multiple backend matched requires", line |-> 90]

JoinNone(l) == [type |-> "TypeError",
                message |-> "can only join an iterable", line |-> l]

\* Matches, were the name looked up in the list instead of in its joined text
MatchesListMember(reg, requires) ==
    SelectSeq(Families(reg),
              LAMBDA match : \E k \in 1..Len(requires) : requires[k] = match)

\* 03_analyze.py:88-89: the families whose name occurs in " ".join(requires)
Matches(reg, requires) ==
    SelectSeq(Families(reg),
              LAMBDA match : Contains(Chars(match), Join(<<" ">>, requires)))

\* Classify, were a declaration with a search path treated as custom before
\* the registry is looked at
ClassifyPathFirst(mapping, reg, bs) ==
    IF bs.build_backend \in DOMAIN mapping /\ ~Truthy(bs.backend_path)
    THEN [error |-> NoError, family |-> mapping[bs.build_backend],
          backend |-> bs.build_backend]
    ELSE IF ~Truthy(bs.backend_path)
    THEN [error |-> Unclassified, family |-> "", backend |-> bs.build_backend]
    ELSE IF bs.requires.none /\ Len(reg) > 0
    THEN [error |-> JoinNone(89), family |-> "", backend |-> bs.build_backend]
    ELSE LET matches == Matches(reg, bs.requires.items) IN
         IF Len(matches) > 1
         THEN [error |-> MultipleMatched, family |-> "",
               backend |-> bs.build_backend]
         ELSE [error |-> NoError,
               family |-> IF Len(matches) > 0 THEN matches[1] ELSE "(custom)",
               backend |-> "(custom)"]

\* Classify, were the first match taken without the assertion of line 90
ClassifyFirstMatch(mapping, reg, bs) ==
    IF bs.build_backend \in DOMAIN mapping
    THEN [error |-> NoError, family |-> mapping[bs.build_backend],
          backend |-> bs.build_backend]
    ELSE IF ~Truthy(bs.backend_path)
    THEN [error |-> Unclassified, family |-> "", backend |-> bs.build_backend]
    ELSE IF bs.requires.none /\ Len(reg) > 0
    THEN [error |-> JoinNone(89), family |-> "", backend |-> bs.build_backend]
    ELSE LET matches == Matches(reg, bs.requires.items) IN
         [error |-> NoError,
          family |-> IF Len(matches) > 0 THEN matches[1] ELSE "(custom)",
          backend |-> "(custom)"]

\* 03_analyze.py:79-96: family and backend of one BuildSystem, or the exception
Classify(mapping, reg, bs) ==
    IF bs.build_backend \in DOMAIN mapping
    THEN [error |-> NoError, family |-> mapping[bs.build_backend],
          backend |-> bs.build_backend]
    ELSE IF ~Truthy(bs.backend_path)
    THEN [error |-> Unclassified, family |-> "", backend |-> bs.build_backend]
    ELSE IF bs.requires.none /\ Len(reg) > 0
    THEN [error |-> JoinNone(89), family |-> "", backend |-> bs.build_backend]
    ELSE LET matches == Matches(reg, bs.requires.items) IN
         IF Len(matches) > 1
         THEN [error |-> MultipleMatched, family |-> "",
               backend |-> bs.build_backend]
         ELSE [error |-> NoError,
               family |-> IF Len(matches) > 0 THEN matches[1] ELSE "(custom)",
               backend |-> "(custom)"]

----------------------------------------------------------------------------
(* 03_analyze.py: format detection, main lines 100-113 *)

\* ScanLines, were the break of line 109 missing
RECURSIVE ScanLinesNoBreak(_)
ScanLinesNoBreak(lines) ==
    IF Len(lines) = 0 THEN <<>>
    ELSE (IF Strip(Chars(lines[1])) = Chars("[metadata]")
          THEN <<"setup.cfg">> ELSE <<>>)
         \o ScanLinesNoBreak(Tail(lines))

\* 03_analyze.py:106-109: the scan of setup.cfg stops at the first match
RECURSIVE ScanLines(_)
ScanLines(lines) ==
    IF Len(lines) = 0 THEN <<>>
    ELSE IF Strip(Chars(lines[1])) = Chars("[metadata]") THEN <<"setup.cfg">>
    ELSE ScanLines(Tail(lines))

\* 03_analyze.py:100-113
DetectFormats(has_pep621, setup_cfg, setup_py) ==
    (IF has_pep621 THEN <<"pyproject.toml">> ELSE <<>>)
    \o (IF setup_cfg.exists THEN ScanLines(setup_cfg.lines) ELSE <<>>)
    \o (IF setup_py THEN <<"setup.py">> ELSE <<>>)

\* 03_analyze.py:117: "wheel" in " ".join(requires or [])
HasWheel(requires) ==
    Contains(Chars("wheel"), Join(<<" ">>, OrEmpty(requires)))

\* 03_analyze.py:122: "setuptools" in " ".join(requires), requires a list
HasSetuptools(requires) ==
    Contains(Chars("setuptools"), Join(<<" ">>, requires.items))

----------------------------------------------------------------------------
(* 03_analyze.py: main *)

Unbound == "<unbound>"

NoDist == [build_backend |-> None, backend_path |-> NoneList,
           requires |-> NoneList, has_pep621 |-> FALSE,
           setup_read |-> FALSE, setup_cfg |-> MissingFile, setup_py |-> FALSE]

\* a directory whose setup.cfg and setup.py were not looked at
PyprojectOnly(bs) ==
    [build_backend |-> bs.build_backend, backend_path |-> bs.backend_path,
     requires |-> bs.requires, has_pep621 |-> bs.has_pep621,
     setup_read |-> FALSE, setup_cfg |-> MissingFile, setup_py |-> FALSE]

\* a directory whose setup.cfg and setup.py were looked at
WithSetup(bs, cfg, py) ==
    [build_backend |-> bs.build_backend, backend_path |-> bs.backend_path,
     requires |-> bs.requires, has_pep621 |-> bs.has_pep621,
     setup_read |-> TRUE, setup_cfg |-> cfg, setup_py |-> py]

\* the state of the scripts before any of them has run, for a given registry
InitScripts(reg) ==
    /\ BACKEND_FAMILIES = reg
    /\ backend_to_family_mapping = EmptyDict
    /\ build_backend_families = EmptyDict
    /\ setuptools_formats = EmptyDict
    /\ setuptools_wheel_deps = 0
    /\ other_backends_using_setuptools = EmptyDict
    /\ dependencies = EmptyDict
    /\ total_dependencies = EmptyDict
    /\ ndists = 0
    /\ dist = NoDist
    /\ family = Unbound
    /\ backend = Unbound
    /\ formats = <<>>
    /\ script = ""
    /\ pc = "start"
    /\ error = NoError

\* the state before any script has run: no packages.json, no batch files
InitWith(reg) ==
    /\ InitScripts(reg)
    /\ packages = <<>>
    /\ sdist_files = <<>>
    /\ num = 0
    /\ retrieved = <<>>
    /\ out_files = <<>>
    /\ err_files = <<>>
    /\ task = <<>>
    /\ subp = <<>>

Init == InitWith(Registry)

\* 03_analyze.py:65-73
BuildMapping ==
    /\ pc = "start"
    /\ script' = "03_analyze"
    /\ backend_to_family_mapping' = InvertRegistry(EmptyDict, BACKEND_FAMILIES)
    /\ pc' = "loop"
    /\ UNCHANGED <<BACKEND_FAMILIES, counters, dependencies, total_dependencies,
                   packages, ndists, dist, family, backend, formats, error,
                   batch>>

\* 03_analyze.py:78-96 raising: line 97 is not reached
ClassifyFails(bs, c) ==
    /\ c.error # NoError
    /\ dist' = PyprojectOnly(bs)
    /\ backend' = bs.build_backend
    /\ pc' = "failed"
    /\ error' = c.error
    /\ UNCHANGED <<family, formats, counters>>

\* 03_analyze.py:97-118, family == "setuptools"
CountSetuptools(bs, c) ==
    /\ c.error = NoError
    /\ c.family = "setuptools"
    /\ family' = c.family
    /\ backend' = c.backend
    /\ build_backend_families' = Inc2(build_backend_families, c.family, c.backend)
    /\ setuptools_wheel_deps' =
         setuptools_wheel_deps + (IF HasWheel(bs.requires) THEN 1 ELSE 0)
    /\ UNCHANGED <<other_backends_using_setuptools, pc, error>>
    /\ \E setup_cfg \in SetupCfgInputs, setup_py \in BOOLEAN :
         /\ dist' = WithSetup(bs, setup_cfg, setup_py)
         /\ formats' = DetectFormats(bs.has_pep621, setup_cfg, setup_py)
         /\ setuptools_formats' = Inc(setuptools_formats, formats')

\* 03_analyze.py:97-100 and 121-123, family != "setuptools"
CountOther(bs, c) ==
    /\ c.error = NoError
    /\ c.family # "setuptools"
    /\ dist' = PyprojectOnly(bs)
    /\ family' = c.family
    /\ backend' = c.backend
    /\ formats' = <<>>
    /\ build_backend_families' = Inc2(build_backend_families, c.family, c.backend)
    /\ IF bs.requires.none
       THEN /\ pc' = "failed"
            /\ error' = JoinNone(122)
            /\ UNCHANGED other_backends_using_setuptools
       ELSE /\ other_backends_using_setuptools' =
                 IF HasSetuptools(bs.requires)
                 THEN Inc(other_backends_using_setuptools, c.family)
                 ELSE other_backends_using_setuptools
            /\ UNCHANGED <<pc, error>>
    /\ UNCHANGED <<setuptools_formats, setuptools_wheel_deps>>

\* 03_analyze.py:75-123: one iteration of the loop over unpacked_data
ProcessDist ==
    /\ script = "03_analyze"
    /\ pc = "loop"
    /\ ndists < MaxDists
    /\ ndists' = ndists + 1
    /\ \E bs \in BuildSystems :
         LET c == Classify(backend_to_family_mapping, BACKEND_FAMILIES, bs) IN
           \/ ClassifyFails(bs, c)
           \/ CountSetuptools(bs, c)
           \/ CountOther(bs, c)
    /\ UNCHANGED <<BACKEND_FAMILIES, backend_to_family_mapping, dependencies,
                   total_dependencies, packages, script, batch>>

\* 03_analyze.py:125-156: iterdir() is exhausted, the tables are printed
PrintStats ==
    /\ script = "03_analyze"
    /\ pc = "loop"
    /\ pc' = "done"
    /\ UNCHANGED <<BACKEND_FAMILIES, backend_to_family_mapping, counters,
                   dependencies, total_dependencies, packages, ndists, dist,
                   family, backend, formats, script, error, batch>>

----------------------------------------------------------------------------
(* 06_count.py: requirement names *)

Upper == <<"A","B","C","D","E","F","G","H","I","J","K","L","M",
           "N","O","P","Q","R","S","T","U","V","W","X","Y","Z">>

Lowercase == <<"a","b","c","d","e","f","g","h","i","j","k","l","m",
               "n","o","p","q","r","s","t","u","v","w","x","y","z">>

Digits == {"0","1","2","3","4","5","6","7","8","9"}

\* the separators that canonicalize_name folds
Separators == {"-", "_", "."}

\* the characters of a distribution name in a requirement string
NameChars ==
    {Upper[k] : k \in 1..Len(Upper)} \cup {Lowercase[k] : k \in 1..Len(Lowercase)}
    \cup Digits \cup Separators

\* str.lower() of one character
Lower(ch) ==
    IF \E k \in 1..Len(Upper) : Upper[k] = ch
    THEN Lowercase[CHOOSE k \in 1..Len(Upper) : Upper[k] = ch]
    ELSE ch

\* packaging: Requirement(requirement).name, the name that starts the string
RECURSIVE RequirementName(_)
RequirementName(cs) ==
    IF Len(cs) > 0 /\ cs[1] \in NameChars
    THEN <<cs[1]>> \o RequirementName(Tail(cs))
    ELSE <<>>

\* packaging: canonicalize_name, re.sub(r"[-_.]+", "-", name).lower()
RECURSIVE canonicalize_name(_)
canonicalize_name(cs) ==
    IF Len(cs) = 0 THEN <<>>
    ELSE IF cs[1] \in Separators
    THEN IF Len(cs) > 1 /\ cs[2] \in Separators
         THEN canonicalize_name(Tail(cs))
         ELSE <<"-">> \o canonicalize_name(Tail(cs))
    ELSE <<Lower(cs[1])>> \o canonicalize_name(Tail(cs))

\* 06_count.py:97-99, on the characters of the requirement
requirement_to_package(cs) == canonicalize_name(RequirementName(cs))

\* packaging: what can follow the name in a requirement string: extras, a
\* version specifier, a url or a marker
AfterName == {"[", "(", "<", ">", "=", "!", "~", "@", ";"}

\* packaging: Requirement(requirement) does not raise InvalidRequirement
ValidRequirement(cs) ==
    LET name == RequirementName(cs)
        rest == LStrip(SubSeq(cs, Len(name) + 1, Len(cs)))
    IN /\ name # <<>>
       /\ rest = <<>> \/ rest[1] \in AfterName

\* 06_count.py:99 raising for one requirement of the list
Unparsable(req_list) ==
    \E k \in 1..Len(OrEmpty(req_list)) :
        ~ValidRequirement(Chars(OrEmpty(req_list)[k]))

InvalidRequirement ==
    [type |-> "InvalidRequirement", message |-> "", line |-> 99]

\* 06_count.py:102-104
deduped_requirements(req_list) ==
    {requirement_to_package(Chars(OrEmpty(req_list)[k])) :
        k \in 1..Len(OrEmpty(req_list))}

\* 06_count.py:31-38
SELECTED_DEP_FAMILIES ==
    {"hatchling", "mesonpy", "pdm", "poetry", "scikit-build-core", "setuptools"}

\* 06_count.py:107-110
DepCount == [direct |-> 0, dynamic |-> 0]

----------------------------------------------------------------------------
(* 04_count.py / 06_count.py: the records of packages.json *)

\* one value of packages.json; requires_dynamic is None when the key is
\* missing or null (package.get("requires-dynamic"))
Package(fam, bk, fmts, reqs, dyn) ==
    [family |-> fam, backend |-> bk, formats |-> fmts, requires |-> reqs,
     requires_dynamic |-> dyn]

PackageInputs ==
    {Package("setuptools", None, <<>>, NoneList, NoneList),
     Package("setuptools", "setuptools.build_meta",
             <<"pyproject.toml", "setup.py">>,
             List(<<"setuptools>=61", "wheel">>), List(<<"wheel">>)),
     Package("pdm", "pdm.backend", <<>>, List(<<"pdm-backend">>), List(<<>>)),
     Package("pdm", "(custom)", <<>>,
             List(<<"pdm-backend", "setuptools>=61">>), List(<<"Cython">>)),
     Package("(custom)", "(custom)", <<>>,
             List(<<"setuptools-scm", "Cython">>), NoneList),
     Package("maturin", "maturin", <<>>, NoneList, NoneList)}

\* packages.values(): the records in the order of the file
PackagesInputs ==
    UNION {[1..n -> PackageInputs] : n \in 0..MaxPackages}

----------------------------------------------------------------------------
(* 04_count.py / 06_count.py: main *)

\* the tables of one run, and the exception that ended it
NoReport ==
    [build_backend_families |-> EmptyDict, setuptools_formats |-> EmptyDict,
     setuptools_wheel_deps |-> 0, other_backends_using_setuptools |-> EmptyDict,
     dependencies |-> EmptyDict, total_dependencies |-> EmptyDict,
     error |-> NoError]

\* CountPackage, were a legacy record without formats left out of
\* setuptools_formats
CountPackageSkipsBroken(r, package, line) ==
    LET r1 == [r EXCEPT !.build_backend_families =
                   Inc2(@, package.family, package.backend)] IN
    IF package.family = "setuptools"
    THEN [r1 EXCEPT !.setuptools_formats =
                        IF package.formats = <<>> THEN @
                        ELSE Inc(@, package.formats),
                    !.setuptools_wheel_deps =
                        @ + (IF HasWheel(package.requires) THEN 1 ELSE 0)]
    ELSE IF package.requires.none
    THEN [r1 EXCEPT !.error = JoinNone(line)]
    ELSE IF HasSetuptools(package.requires)
    THEN [r1 EXCEPT !.other_backends_using_setuptools = Inc(@, package.family)]
    ELSE r1

\* 04_count.py:27-37 (06_count.py:134-143): the counters after one package
CountPackage(r, package, line) ==
    LET r1 == [r EXCEPT !.build_backend_families =
                   Inc2(@, package.family, package.backend)] IN
    IF package.family = "setuptools"
    THEN [r1 EXCEPT !.setuptools_formats = Inc(@, package.formats),
                    !.setuptools_wheel_deps =
                        @ + (IF HasWheel(package.requires) THEN 1 ELSE 0)]
    ELSE IF package.requires.none
    THEN [r1 EXCEPT !.error = JoinNone(line)]
    ELSE IF HasSetuptools(package.requires)
    THEN [r1 EXCEPT !.other_backends_using_setuptools = Inc(@, package.family)]
    ELSE r1

\* 04_count.py:26-37: the loop over packages.values(), left at the first raise
RECURSIVE Count04(_, _)
Count04(r, pkgs) ==
    IF Len(pkgs) = 0 \/ r.error # NoError THEN r
    ELSE Count04(CountPackage(r, pkgs[1], 36), Tail(pkgs))

\* dependencies[name][family].direct += 1 for every name
AddDirect(deps, names, fam) ==
    [n \in (DOMAIN deps) \cup names |->
       IF n \in names
       THEN LET of == IF n \in DOMAIN deps THEN deps[n] ELSE EmptyDict
                old == IF fam \in DOMAIN of THEN of[fam] ELSE DepCount
            IN Put(of, fam, [old EXCEPT !.direct = @ + 1])
       ELSE deps[n]]

\* dependencies[name][family].dynamic += 1 for every name
AddDynamic(deps, names, fam) ==
    [n \in (DOMAIN deps) \cup names |->
       IF n \in names
       THEN LET of == IF n \in DOMAIN deps THEN deps[n] ELSE EmptyDict
                old == IF fam \in DOMAIN of THEN of[fam] ELSE DepCount
            IN Put(of, fam, [old EXCEPT !.dynamic = @ + 1])
       ELSE deps[n]]

\* total_dependencies[name] += 1 for every name
AddTotal(total, names) ==
    [n \in (DOMAIN total) \cup names |->
       (IF n \in DOMAIN total THEN total[n] ELSE 0)
       + (IF n \in names THEN 1 ELSE 0)]

\* 06_count.py:145-151: the dependency tables after one package, or the
\* InvalidRequirement of the first list that cannot be parsed
CountDependencies(r, package) ==
    LET direct == {requirement_to_package(n) :
                      n \in deduped_requirements(package.requires)}
        dynamic == {requirement_to_package(n) :
                      n \in deduped_requirements(package.requires_dynamic)}
        all == deduped_requirements(
                   List(OrEmpty(package.requires)
                        \o OrEmpty(package.requires_dynamic)))
        selected == package.family \in SELECTED_DEP_FAMILIES
    IN IF selected /\ Unparsable(package.requires)
       THEN [r EXCEPT !.error = InvalidRequirement]
       ELSE IF selected /\ Unparsable(package.requires_dynamic)
       THEN [r EXCEPT !.dependencies = AddDirect(@, direct, package.family),
                      !.error = InvalidRequirement]
       ELSE LET r1 == [r EXCEPT
                         !.dependencies =
                             IF selected
                             THEN AddDynamic(AddDirect(@, direct, package.family),
                                             dynamic, package.family)
                             ELSE @]
            IN IF Unparsable(package.requires)
                  \/ Unparsable(package.requires_dynamic)
               THEN [r1 EXCEPT !.error = InvalidRequirement]
               ELSE [r1 EXCEPT !.total_dependencies = AddTotal(@, all)]

\* 06_count.py:133-151: the loop over packages.values(), left at the first raise
RECURSIVE Count06(_, _)
Count06(r, pkgs) ==
    IF Len(pkgs) = 0 \/ r.error # NoError THEN r
    ELSE LET r1 == CountPackage(r, pkgs[1], 142) IN
         Count06(IF r1.error # NoError THEN r1
                 ELSE CountDependencies(r1, pkgs[1]),
                 Tail(pkgs))

\* the script's tables and outcome become the state
Report(r) ==
    /\ build_backend_families' = r.build_backend_families
    /\ setuptools_formats' = r.setuptools_formats
    /\ setuptools_wheel_deps' = r.setuptools_wheel_deps
    /\ other_backends_using_setuptools' = r.other_backends_using_setuptools
    /\ dependencies' = r.dependencies
    /\ total_dependencies' = r.total_dependencies
    /\ error' = r.error
    /\ pc' = IF r.error = NoError THEN "done" ELSE "failed"

\* 04_count.py:19-37: a run of 04_count.py on a packages.json
RunCount04 ==
    /\ pc = "start"
    /\ script' = "04_count"
    /\ \E pkgs \in PackagesInputs :
         /\ packages' = pkgs
         /\ Report(Count04(NoReport, pkgs))
    /\ UNCHANGED <<analysis, batch>>

\* 06_count.py:124-151: a run of 06_count.py on a packages.json
RunCount06 ==
    /\ pc = "start"
    /\ script' = "06_count"
    /\ \E pkgs \in PackagesInputs :
         /\ packages' = pkgs
         /\ Report(Count06(NoReport, pkgs))
    /\ UNCHANGED <<analysis, batch>>

----------------------------------------------------------------------------
(* The scripts: each behaviour runs one of them *)

Next == BuildMapping \/ ProcessDist \/ PrintStats \/ RunCount04 \/ RunCount06

Spec == Init /\ [][Next]_vars

\* the two scripts that read packages.json
NextCount == RunCount04 \/ RunCount06

SpecCount == Init /\ [][NextCount]_vars

----------------------------------------------------------------------------
(* The inversion of 03_analyze.py on other registries *)

\* member lists of a family: one to MaxMembers identifiers
MemberLists ==
    UNION {[1..n -> {None, "setuptools.build_meta", "flit_core.buildapi"}] :
              n \in 1..MaxMembers}

\* registries as a dict literal can spell them: the family names are distinct
RegistryInputs ==
    {reg \in UNION {[1..n -> {"setuptools", "flit", "pdm"} \X MemberLists] :
                       n \in 0..MaxFamilies} :
        \A j, k \in 1..Len(reg) : reg[j][1] = reg[k][1] => j = k}

InitRegistry == \E reg \in RegistryInputs : InitWith(reg)

NextRegistry == BuildMapping

SpecRegistry == InitRegistry /\ [][NextRegistry]_vars

----------------------------------------------------------------------------
(* 04_get_build_requires.py and 05_merge_build_requires.py: the batch *)

\* packages in the packages.json of a batch
MaxBatch == 2

\* the keys of packages.json, numbered in the order of the file: every file
\* of a dist is kept under the number of its key
Dists == 1..Len(packages)

\* the str that has the given characters
Str(cs) == CHOOSE s \in DOMAIN CharTable : CharTable[s] = cs

\* what run.py leaves in out.txt: one requirement per line
OutInputs == {<<>>, <<"wheel\n">>}

\* the values of a packages.json that has not been merged: no requires-dynamic
BatchRecords ==
    <<Package("setuptools", None, <<"setup.py">>, NoneList, NoneList),
      Package("pdm", "pdm.backend", <<>>, List(<<"pdm-backend">>), NoneList)>>

BatchInputs ==
    {[k \in 1..n |-> BatchRecords[((k - 1) % Len(BatchRecords)) + 1]] :
        n \in 0..MaxBatch}

\* the exception that process() raised, as main receives it from the pool
Raised(type, line) == [type |-> type, message |-> "", line |-> line]

\* the batch was interrupted from outside
Killed == [type |-> "KeyboardInterrupt", message |-> "", line |-> 121]

\* no worker holds a dist
NoTasks == [d \in Dists |-> "none"]

\* no subprocess of a worker has exited
NoSubp == [d \in Dists |-> None]

----------------------------------------------------------------------------
(* 01_download_pypi_packages.py: the download of the sdists *)

\* what a step of the download loop leaves alone
DownloadFrame ==
    UNCHANGED <<analysis, counters, dependencies, total_dependencies,
                packages, script, hooks>>

\* 01_download_pypi_packages.py:44-62: the rows of the package list are the
\* packages of the batch, in the order of its packages.json
StartDownload ==
    /\ pc = "start"
    /\ script \in {"", "01_download"}
    /\ script' = "01_download"
    /\ pc' = "download"
    /\ error' = NoError
    /\ num' = 0
    /\ UNCHANGED <<analysis, counters, dependencies, total_dependencies,
                   packages, sdist_files, retrieved, hooks>>

\* the loop goes on with the next package
NextPackage ==
    /\ num' = num + 1
    /\ pc' = "download"
    /\ UNCHANGED error

\* 01_download_pypi_packages.py:67-92 without line 21: a glob finds a file of
\* the package (69-71, 76-78), or the request for the metadata raises (84-86),
\* or the metadata list no source url (23, 92), or the path of the source url
\* exists (19, 22); nothing is retrieved and the loop goes on
NothingRetrieved ==
    /\ pc = "download"
    /\ num < Len(packages)
    /\ NextPackage
    /\ UNCHANGED <<sdist_files, retrieved>>
    /\ DownloadFrame

\* 01_download_pypi_packages.py:19-21: the path does not exist and urlretrieve
\* is called; it opens the url and creates the file, or raises before
Urlretrieve ==
    /\ pc = "download"
    /\ num < Len(packages)
    /\ sdist_files[num + 1] = "missing"
    /\ retrieved' = [retrieved EXCEPT ![num + 1] = TRUE]
    /\ \/ /\ sdist_files' = [sdist_files EXCEPT ![num + 1] = "partial"]
          /\ pc' = "urlretrieve"
          /\ UNCHANGED error
       \/ /\ pc' = "start"
          /\ error' = Raised("URLError", 21)
          /\ UNCHANGED sdist_files
    /\ UNCHANGED num
    /\ DownloadFrame

\* 01_download_pypi_packages.py:21-22: urlretrieve returns, the file is whole
UrlretrieveReturns ==
    /\ pc = "urlretrieve"
    /\ sdist_files' = [sdist_files EXCEPT ![num + 1] = "complete"]
    /\ NextPackage
    /\ UNCHANGED retrieved
    /\ DownloadFrame

\* 01_download_pypi_packages.py:21: urlretrieve raises while it reads, main
\* ends and the file stays as far as it was written
UrlretrieveRaises ==
    /\ pc = "urlretrieve"
    /\ pc' = "start"
    /\ error' = Raised("ContentTooShortError", 21)
    /\ UNCHANGED <<sdist_files, num, retrieved>>
    /\ DownloadFrame

\* 01_download_pypi_packages.py:64 and 94-95: the list is exhausted
DownloadDone ==
    /\ pc = "download"
    /\ num = Len(packages)
    /\ pc' = "start"
    /\ UNCHANGED <<error, sdist_files, num, retrieved>>
    /\ DownloadFrame

\* the download is interrupted, between two packages or while urlretrieve
\* writes the file
DownloadKilled ==
    /\ pc \in {"download", "urlretrieve"}
    /\ pc' = "start"
    /\ error' = Killed
    /\ UNCHANGED <<sdist_files, num, retrieved>>
    /\ DownloadFrame

----------------------------------------------------------------------------
(* 04_get_build_requires.py: the pool *)

\* 04_get_build_requires.py:117-123: main loads packages.json and hands
\* every dist to the pool
StartPool ==
    /\ pc = "start"
    /\ script \in {"", "01_download", "04_get_build_requires"}
    /\ script' = "04_get_build_requires"
    /\ pc' = "pool"
    /\ error' = NoError
    /\ task' = [d \in Dists |-> "queued"]
    /\ subp' = NoSubp
    /\ UNCHANGED <<analysis, counters, dependencies, total_dependencies,
                   packages, downloads, out_files, err_files>>

\* what a step of one worker leaves alone
WorkerFrame ==
    UNCHANGED <<analysis, counters, dependencies, total_dependencies,
                packages, script, pc, error, downloads>>

\* 04_get_build_requires.py:21-24: {dist}.out exists, process returns
ProcessSkip(d) ==
    /\ pc = "pool"
    /\ task[d] = "queued"
    /\ out_files[d].exists
    /\ task' = [task EXCEPT ![d] = "skipped"]
    /\ UNCHANGED <<out_files, err_files, subp>>
    /\ WorkerFrame

\* 04_get_build_requires.py:29-30: assert sdist.exists() fails
ProcessAsserts(d) ==
    /\ pc = "pool"
    /\ task[d] = "queued"
    /\ ~out_files[d].exists
    /\ sdist_files[d] = "missing"
    /\ task' = [task EXCEPT ![d] = "AssertionError"]
    /\ UNCHANGED <<out_files, err_files, subp>>
    /\ WorkerFrame

\* ProcessSetup, were the test of line 23 for {dist}.out left out
ProcessSetupAlways(d) ==
    /\ pc = "pool"
    /\ task[d] = "queued"
    /\ sdist_files[d] # "missing"
    /\ err_files' = [err_files EXCEPT ![d] = TRUE]
    /\ task' = [task EXCEPT ![d] = "run.sh"]
    /\ UNCHANGED <<out_files, subp>>
    /\ WorkerFrame

\* 04_get_build_requires.py:25-56: {dist}.err is opened for writing and
\* run.sh is started
ProcessSetup(d) ==
    /\ pc = "pool"
    /\ task[d] = "queued"
    /\ ~out_files[d].exists
    /\ sdist_files[d] # "missing"
    /\ err_files' = [err_files EXCEPT ![d] = TRUE]
    /\ task' = [task EXCEPT ![d] = "run.sh"]
    /\ UNCHANGED <<out_files, subp>>
    /\ WorkerFrame

\* 04_get_build_requires.py:52-97: run.sh exits; on status zero run.py is
\* written and started
SetupExits(d) ==
    /\ pc = "pool"
    /\ task[d] = "run.sh"
    /\ \E returncode \in {0, 1} :
         /\ subp' = [subp EXCEPT ![d] = returncode]
         /\ task' = [task EXCEPT ![d] = IF returncode # 0 THEN "returned"
                                        ELSE "run.py"]
    /\ UNCHANGED <<out_files, err_files>>
    /\ WorkerFrame

\* HookExits, were out.txt moved whatever the status of run.py
HookExitsMovesAlways(d) ==
    /\ pc = "pool"
    /\ task[d] = "run.py"
    /\ \E returncode \in {0, 1},
          out_txt \in {MissingFile} \cup {File(lines) : lines \in OutInputs} :
         /\ subp' = [subp EXCEPT ![d] = returncode]
         /\ IF out_txt.exists
            THEN /\ out_files' = [out_files EXCEPT ![d] = out_txt]
                 /\ task' = [task EXCEPT ![d] = "returned"]
            ELSE /\ task' = [task EXCEPT ![d] = "FileNotFoundError"]
                 /\ UNCHANGED out_files
    /\ UNCHANGED err_files
    /\ WorkerFrame

\* 04_get_build_requires.py:93-101: run.py exits; on status zero out.txt is
\* moved to {dist}.out, which raises when run.py left no out.txt
HookExits(d) ==
    /\ pc = "pool"
    /\ task[d] = "run.py"
    /\ \E returncode \in {0, 1},
          out_txt \in {MissingFile} \cup {File(lines) : lines \in OutInputs} :
         /\ subp' = [subp EXCEPT ![d] = returncode]
         /\ IF returncode # 0
            THEN /\ task' = [task EXCEPT ![d] = "returned"]
                 /\ UNCHANGED out_files
            ELSE IF out_txt.exists
            THEN /\ out_files' = [out_files EXCEPT ![d] = out_txt]
                 /\ task' = [task EXCEPT ![d] = "returned"]
            ELSE /\ task' = [task EXCEPT ![d] = "FileNotFoundError"]
                 /\ UNCHANGED out_files
    /\ UNCHANGED err_files
    /\ WorkerFrame

\* what the end of main leaves alone: the workers are gone
PoolFrame ==
    /\ task' = NoTasks
    /\ subp' = NoSubp
    /\ pc' = "start"
    /\ UNCHANGED <<analysis, counters, dependencies, total_dependencies,
                   packages, script, downloads, out_files, err_files>>

\* 04_get_build_requires.py:121-124: every result has come in
PoolDone ==
    /\ pc = "pool"
    /\ \A d \in Dists : task[d] \in {"returned", "skipped"}
    /\ UNCHANGED error
    /\ PoolFrame

\* 04_get_build_requires.py:121: the result that comes in is an exception of
\* process(), main raises it and the pool is terminated
PoolRaises ==
    /\ pc = "pool"
    /\ \E d \in Dists :
         \/ /\ task[d] = "AssertionError"
            /\ error' = Raised("AssertionError", 30)
         \/ /\ task[d] = "FileNotFoundError"
            /\ error' = Raised("FileNotFoundError", 101)
    /\ PoolFrame

\* the batch is interrupted while the pool works: main and the workers end
\* wherever they are
PoolKilled ==
    /\ pc = "pool"
    /\ error' = Killed
    /\ PoolFrame

\* ReadOut, were a missing {dist}.out read as no lines
ReadOutOrEmpty(f) ==
    List([k \in 1..Len(f.lines) |-> Str(Strip(Chars(f.lines[k])))])

\* 05_merge_build_requires.py:24-27: the lines of {dist}.out, stripped, or None
ReadOut(f) ==
    IF f.exists
    THEN List([k \in 1..Len(f.lines) |-> Str(Strip(Chars(f.lines[k])))])
    ELSE NoneList

\* 05_merge_build_requires.py:21-32: requires-dynamic of every package is set
\* from its {dist}.out and packages.json is written back
Merge05 ==
    /\ pc = "start"
    /\ script \in {"", "01_download", "04_get_build_requires"}
    /\ script' = "05_merge_build_requires"
    /\ pc' = "merged"
    /\ error' = NoError
    /\ packages' = [d \in Dists |->
                      [packages[d] EXCEPT
                          !.requires_dynamic = ReadOut(out_files[d])]]
    /\ UNCHANGED <<analysis, counters, dependencies, total_dependencies, batch>>

\* 06_count.py:124-151: a run of 06_count.py on the merged packages.json
CountMerged ==
    /\ pc = "merged"
    /\ script' = "06_count"
    /\ Report(Count06(NoReport, packages))
    /\ UNCHANGED <<analysis, packages, batch>>

\* the state before the batch: a packages.json, the sdists that are there,
\* and an empty out_dir
InitBatch ==
    /\ InitScripts(Registry)
    /\ packages \in BatchInputs
    /\ sdist_files = [d \in Dists |-> "missing"]
    /\ num = 0
    /\ retrieved = [d \in Dists |-> FALSE]
    /\ out_files = [d \in Dists |-> MissingFile]
    /\ err_files = [d \in Dists |-> FALSE]
    /\ task = NoTasks
    /\ subp = NoSubp

NextBatch ==
    \/ StartDownload
    \/ NothingRetrieved
    \/ Urlretrieve
    \/ UrlretrieveReturns
    \/ UrlretrieveRaises
    \/ DownloadDone
    \/ DownloadKilled
    \/ StartPool
    \/ \E d \in Dists : ProcessSkip(d)
    \/ \E d \in Dists : ProcessAsserts(d)
    \/ \E d \in Dists : ProcessSetup(d)
    \/ \E d \in Dists : SetupExits(d)
    \/ \E d \in Dists : HookExits(d)
    \/ PoolDone
    \/ PoolRaises
    \/ PoolKilled
    \/ Merge05
    \/ CountMerged

SpecBatch == InitBatch /\ [][NextBatch]_vars

----------------------------------------------------------------------------
(* Properties *)

\* `dist` describes a directory that 03_analyze.py has taken from iterdir()
Analyzed == script = "03_analyze" /\ ndists > 0

\* the step is an iteration of 03_analyze.py's loop
AnalyzeStep == script = "03_analyze" /\ ndists' = ndists + 1

\* the families of the source registry that list the identifier
RegisteredFamilies(id) ==
    {Registry[k][1] : k \in Claimants(Registry, id)}

\* the run ended inside the classification, lines 79-96
ClassificationFailed == pc = "failed" /\ error.line \in {84, 89, 90}

\* the known family names that occur in the joined requirements
Mentioned(requires) ==
    {Registry[k][1] : k \in {j \in 1..Len(Registry) :
        Contains(Chars(Registry[j][1]), Join(<<" ">>, OrEmpty(requires)))}}

\* the declaration has a search path with an entry
HasSearchPath(d) == ~d.backend_path.none /\ d.backend_path.items # <<>>

\* an unregistered identifier that comes with a search path
CustomBackend(d) ==
    RegisteredFamilies(d.build_backend) = {} /\ HasSearchPath(d)

\* C1: a declaration whose backend identifier (None included) is listed in
\* the registry gets the family that lists it and keeps its identifier as
\* resolved backend, whatever its search path and requirements are; the
\* classification does not fail.
C1_RegistryLookup ==
    (Analyzed /\ RegisteredFamilies(dist.build_backend) # {}) =>
        /\ RegisteredFamilies(dist.build_backend) = {family}
        /\ backend = dist.build_backend
        /\ ~ClassificationFailed

\* C1 witness: a registered identifier with a search path and requirements
\* that name another family.
C1_Witness ==
    /\ Analyzed
    /\ dist.build_backend = "poetry.core.masonry.api"
    /\ HasSearchPath(dist)
    /\ dist.requires = List(<<"pdm-backend">>)
    /\ family = "poetry"
    /\ pc = "loop"

\* C2: an iteration on a declaration with an unregistered identifier and an
\* absent or empty search path ends the run with the "Unclassified public
\* backend" assertion, assigns no family and increments no counter.
C2_UnclassifiedRaises ==
    [][(/\ AnalyzeStep
        /\ RegisteredFamilies(dist'.build_backend) = {}
        /\ ~HasSearchPath(dist'))
       => (/\ pc' = "failed"
           /\ error' = Unclassified
           /\ family' = family
           /\ counters' = counters)]_vars

\* C2 witness: the assertion raised for an empty search path.
C2_Witness ==
    /\ Analyzed
    /\ dist.build_backend = "my_backend"
    /\ dist.backend_path = List(<<>>)
    /\ pc = "failed"
    /\ error = Unclassified

\* C3: a declaration with an unregistered identifier, a search path and
\* requirements whose joined text contains exactly one known family name is
\* given that family, with "(custom)" as resolved backend.
C3_SingleMatch ==
    (/\ Analyzed
     /\ CustomBackend(dist)
     /\ ~dist.requires.none
     /\ Cardinality(Mentioned(dist.requires)) = 1)
    => (/\ Mentioned(dist.requires) = {family}
        /\ backend = "(custom)"
        /\ ~ClassificationFailed)

\* C3 witness: a custom backend built on pdm.
C3_Witness ==
    /\ Analyzed
    /\ dist.build_backend = "my_backend"
    /\ dist.requires = List(<<"pdm-backend">>)
    /\ family = "pdm"
    /\ backend = "(custom)"
    /\ Get2(build_backend_families, "pdm", "(custom)") = 1

\* C4: an iteration on a declaration with an unregistered identifier, a
\* search path and requirements whose joined text contains two or more known
\* family names ends the run with the "Multiple backend matched" assertion,
\* assigns no family and increments no counter.
C4_AmbiguousRaises ==
    [][(/\ AnalyzeStep
        /\ CustomBackend(dist')
        /\ ~dist'.requires.none
        /\ Cardinality(Mentioned(dist'.requires)) >= 2)
       => (/\ pc' = "failed"
           /\ error' = MultipleMatched
           /\ family' = family
           /\ counters' = counters)]_vars

\* C4 witness: requirements that name setuptools and pdm.
C4_Witness ==
    /\ Analyzed
    /\ dist.build_backend = "my_backend"
    /\ dist.requires = List(<<"setuptools>=61", "pdm-backend">>)
    /\ pc = "failed"
    /\ error = MultipleMatched

\* C5: a declaration with an unregistered identifier and a search path whose
\* requirements (a list, an empty list, or absent) name no known family is
\* given family "(custom)" and backend "(custom)" and is counted under
\* build_backend_families["(custom)"]["(custom)"].
C5_CustomSentinel ==
    (/\ Analyzed
     /\ CustomBackend(dist)
     /\ Mentioned(dist.requires) = {})
    => (/\ family = "(custom)"
        /\ backend = "(custom)"
        /\ Get2(build_backend_families, "(custom)", "(custom)") >= 1
        /\ pc # "failed")

\* C6, as claimed: a declaration without a backend identifier but with a
\* search path is flagged as a classification failure.
C6_AbsentBackendFlagged ==
    (Analyzed /\ dist.build_backend = None /\ ~dist.backend_path.none)
    => ClassificationFailed

\* C6, amended: a declaration without a backend identifier but with a search
\* path is not flagged: the registry lookup comes first and does not look at
\* the search path, so the package is given the legacy family with backend
\* None and is counted there, and the run goes on.
C6_AbsentBackendIsLegacy ==
    (Analyzed /\ dist.build_backend = None /\ ~dist.backend_path.none)
    => (/\ family = "setuptools"
        /\ backend = None
        /\ Get2(build_backend_families, "setuptools", None) >= 1
        /\ pc # "failed")

\* C6 witness: no build-backend, a backend-path with an entry.
C6_Witness ==
    /\ Analyzed
    /\ dist.build_backend = None
    /\ dist.backend_path = List(<<".">>)
    /\ family = "setuptools"
    /\ pc = "loop"

\* two families of the registry list the same identifier
ClaimedTwice(reg) ==
    \E id \in Members(reg) : Cardinality(Claimants(reg, id)) > 1

MetadataLines == {"[metadata]\n", "  [metadata] \n"}

\* the markers claimed for a directory, in the claimed order
ExpectedFormats(d) ==
    (IF d.has_pep621 THEN <<"pyproject.toml">> ELSE <<>>)
    \o (IF d.setup_cfg.exists
           /\ \E k \in 1..Len(d.setup_cfg.lines) :
                 d.setup_cfg.lines[k] \in MetadataLines
        THEN <<"setup.cfg">> ELSE <<>>)
    \o (IF d.setup_py THEN <<"setup.py">> ELSE <<>>)

\* C8: for a package of the legacy family the detected formats are
\* "pyproject.toml" iff has_pep621, then "setup.cfg" iff the file exists and
\* has a line that stripped is "[metadata]", then "setup.py" iff it exists:
\* in that order, each at most once, and a missing setup.cfg is no error.
C8_FormatDetection ==
    (Analyzed /\ ~ClassificationFailed /\ family = "setuptools")
    => (/\ dist.setup_read
        /\ formats = ExpectedFormats(dist)
        /\ pc # "failed")

\* C8 witness: the three surfaces, with a setup.cfg of two [metadata] lines.
C8_Witness ==
    /\ Analyzed
    /\ family = "setuptools"
    /\ dist.has_pep621
    /\ dist.setup_cfg = File(<<"[metadata]\n", "[options]\n", "[metadata]\n">>)
    /\ dist.setup_py
    /\ formats = <<"pyproject.toml", "setup.cfg", "setup.py">>

\* the records of packages.json of the legacy family with no format
BrokenPackages ==
    {k \in 1..Len(packages) :
        packages[k].family = "setuptools" /\ packages[k].formats = <<>>}

\* C9: a legacy package with none of the three surfaces has an empty format
\* list that is counted and never rejected.  In 03_analyze.py the iteration
\* adds one to setuptools_formats[()] and to the package's cell of
\* build_backend_families and does not fail; 04_count.py and 06_count.py
\* count every such record under setuptools_formats[()] and in
\* build_backend_families, and fail only on a record of another family
\* without requires, or in 06_count.py on a requirement that cannot be parsed.
C9_BrokenDistributionCounted ==
    [][/\ (/\ AnalyzeStep
           /\ family' = "setuptools"
           /\ dist'.setup_read
           /\ ~dist'.has_pep621
           /\ ExpectedFormats(dist') = <<>>)
          => (/\ formats' = <<>>
              /\ Get(setuptools_formats', <<>>) = Get(setuptools_formats, <<>>) + 1
              /\ Get2(build_backend_families', "setuptools", backend')
                   = Get2(build_backend_families, "setuptools", backend') + 1
              /\ pc' = "loop")
       /\ (script' \in {"04_count", "06_count"} /\ pc' = "done")
          => (/\ Get(setuptools_formats', <<>>) = Cardinality(BrokenPackages')
              /\ \A k \in BrokenPackages' :
                    Get2(build_backend_families', "setuptools",
                         packages'[k].backend) >= 1)
       /\ (script' \in {"04_count", "06_count"} /\ pc' = "failed")
          => \/ \E k \in 1..Len(packages') :
                   /\ packages'[k].family # "setuptools"
                   /\ packages'[k].requires.none
             \/ script' = "06_count" /\ error' = InvalidRequirement]_vars

\* C9 witness: 04_count.py has counted two records without any format.
C9_Witness ==
    /\ script = "04_count"
    /\ pc = "done"
    /\ Cardinality(BrokenPackages) = 2
    /\ Get(setuptools_formats, <<>>) = 2
    /\ Get2(build_backend_families, "setuptools", None) = 2

\* the records at the positions of S, in the order of the file
RECURSIVE Pick(_, _, _)
Pick(pkgs, S, k) ==
    IF k > Len(pkgs) THEN <<>>
    ELSE (IF k \in S THEN <<pkgs[k]>> ELSE <<>>) \o Pick(pkgs, S, k + 1)

\* the orders in which n records can be fed
Orders(n) ==
    {f \in [1..n -> 1..n] : \A j, k \in 1..n : f[j] = f[k] => j = k}

\* the aggregation of the script that is run, on other records
CountOf(pkgs) ==
    IF script = "04_count" THEN Count04(NoReport, pkgs)
    ELSE Count06(NoReport, pkgs)

\* the four tables of a report
Tables(r) ==
    <<r.build_backend_families, r.setuptools_formats, r.setuptools_wheel_deps,
      r.other_backends_using_setuptools>>

\* element-wise sum of two count tables
MergeCounts(a, b) ==
    [k \in (DOMAIN a) \cup (DOMAIN b) |-> Get(a, k) + Get(b, k)]

\* element-wise sum of two reports
Merged(a, b) ==
    <<[f \in (DOMAIN a.build_backend_families)
             \cup (DOMAIN b.build_backend_families) |->
         MergeCounts(IF f \in DOMAIN a.build_backend_families
                     THEN a.build_backend_families[f] ELSE EmptyDict,
                     IF f \in DOMAIN b.build_backend_families
                     THEN b.build_backend_families[f] ELSE EmptyDict)],
      MergeCounts(a.setuptools_formats, b.setuptools_formats),
      a.setuptools_wheel_deps + b.setuptools_wheel_deps,
      MergeCounts(a.other_backends_using_setuptools,
                  b.other_backends_using_setuptools)>>

\* C10: the aggregation of 04_count.py and 06_count.py is a mergeable,
\* order-insensitive fold.  For every split of the records into two parts,
\* the run on the whole fails exactly when the run on one part fails, and
\* otherwise the element-wise sum of the two partial reports is the report of
\* the whole; every permutation of the records fails or succeeds alike and
\* gives the same report.
C10_MergeableFold ==
    (script \in {"04_count", "06_count"}) =>
        /\ \A S \in SUBSET (1..Len(packages)) :
              LET a == CountOf(Pick(packages, S, 1))
                  b == CountOf(Pick(packages, (1..Len(packages)) \ S, 1))
              IN /\ (pc = "failed") <=> (a.error # NoError \/ b.error # NoError)
                 /\ (pc = "done") => Merged(a, b) = counters
        /\ \A f \in Orders(Len(packages)) :
              LET r == CountOf([k \in 1..Len(packages) |-> packages[f[k]]])
              IN /\ (pc = "failed") <=> (r.error # NoError)
                 /\ (pc = "done") => Tables(r) = counters

\* C10 witness: 06_count.py has counted three records, two of them of one
\* family, whose counters are all positive.
C10_Witness ==
    /\ script = "06_count"
    /\ pc = "done"
    /\ Len(packages) = 3
    /\ packages[1].family = "pdm"
    /\ packages[2].family = "setuptools"
    /\ packages[3].family = "pdm"
    /\ packages[1].backend # packages[3].backend
    /\ setuptools_wheel_deps = 1
    /\ Get(other_backends_using_setuptools, "pdm") = 1

\* the requirements of a record name the package "setuptools"
NamesSetuptools(requires) ==
    Chars("setuptools") \in deduped_requirements(requires)

\* the records of packages.json of family f that name the package "setuptools"
SetuptoolsUsers(f) ==
    {k \in 1..Len(packages) :
        packages[k].family = f /\ NamesSetuptools(packages[k].requires)}

\* C11: for a record of a family other than setuptools, whose requirements
\* are a list, an empty list or absent, other_backends_using_setuptools[family]
\* is incremented exactly when one of the requirements has the normalized
\* package name "setuptools", and the aggregation continues.  After the first
\* directory of 03_analyze.py the counter of its family is 1 or 0 accordingly
\* and line 122 has not raised; after 04_count.py or 06_count.py the run has
\* not failed and the counter of every family is the number of its records
\* that name the package.
C11_LiteralNameMembership ==
    /\ (script = "03_analyze" /\ ndists = 1
           /\ family \notin {Unbound, "setuptools"})
          => (/\ pc # "failed"
              /\ Get(other_backends_using_setuptools, family)
                   = (IF NamesSetuptools(dist.requires) THEN 1 ELSE 0))
    /\ (script \in {"04_count", "06_count"})
          => (/\ pc # "failed"
              /\ \A k \in 1..Len(packages) :
                    packages[k].family # "setuptools" =>
                       Get(other_backends_using_setuptools, packages[k].family)
                         = Cardinality(SetuptoolsUsers(packages[k].family)))

\* the merge step has been run on the batch, and 06_count.py at most after it
Merged05 == script \in {"05_merge_build_requires", "06_count"}

\* the packages of family f whose known dynamic requirements name the package
DynamicUsers(name, f) ==
    {d \in Dists :
        /\ packages[d].family = f
        /\ ~packages[d].requires_dynamic.none
        /\ \E k \in 1..Len(packages[d].requires_dynamic.items) :
              requirement_to_package(
                  Chars(packages[d].requires_dynamic.items[k])) = name}

\* C12: after 05_merge_build_requires.py the requires-dynamic of every package
\* is None exactly when its {dist}.out does not exist, and a list, possibly
\* empty, of the stripped lines of the file exactly when it exists; after
\* 06_count.py on the merged file the dynamic count of every dependency and
\* family is the number of packages of the family whose known list names it,
\* so that a package whose entry is None adds nothing.
C12_UnknownStaysDistinct ==
    /\ Merged05 =>
          \A d \in Dists :
             /\ packages[d].requires_dynamic.none <=> ~out_files[d].exists
             /\ out_files[d].exists =>
                   /\ Len(packages[d].requires_dynamic.items)
                        = Len(out_files[d].lines)
                   /\ \A k \in 1..Len(out_files[d].lines) :
                         Chars(packages[d].requires_dynamic.items[k])
                           = Strip(Chars(out_files[d].lines[k]))
    /\ (Merged05 /\ script = "06_count" /\ pc = "done") =>
          \A name \in DOMAIN dependencies :
             \A f \in DOMAIN dependencies[name] :
                dependencies[name][f].dynamic
                  = Cardinality(DynamicUsers(name, f))

\* C12 witness: 06_count.py has counted a merged batch in which the first
\* package was attempted without success and is unknown, and the second has
\* a {dist}.out with one line, counted as one dynamic dependency.
C12_Witness ==
    /\ Merged05
    /\ script = "06_count"
    /\ pc = "done"
    /\ Len(packages) = 2
    /\ err_files[1]
    /\ ~out_files[1].exists
    /\ packages[1].requires_dynamic = NoneList
    /\ packages[2].requires_dynamic = List(<<"wheel">>)
    /\ dependencies[Chars("wheel")]["pdm"].dynamic = 1
    /\ Chars("wheel") \notin DOMAIN dependencies
          \/ "setuptools" \notin DOMAIN dependencies[Chars("wheel")]

\* a step in which a worker starts run.sh for the dist
HookStarts(d) == task[d] # "run.sh" /\ task'[d] = "run.sh"

\* a step in which the download loop calls urlretrieve for the package
RetrieveStarts(d) ==
    /\ pc = "download"
    /\ num + 1 = d
    /\ \/ pc' = "urlretrieve"
       \/ pc' = "start" /\ error' = Raised("URLError", 21)

\* urlretrieve is writing the file of the package
Retrieving(d) == pc = "urlretrieve" /\ num + 1 = d

\* no blocking call is started for a package for which one was started before
AttemptedOnce ==
    \A d \in Dists :
       /\ HookStarts(d) => ~err_files[d]
       /\ RetrieveStarts(d) => ~retrieved[d]

\* an artifact that exists is skipped: no blocking call is started for its
\* package and the files of the package stay as they are
ArtifactKept ==
    \A d \in Dists :
       /\ out_files[d].exists =>
             /\ ~HookStarts(d)
             /\ out_files'[d] = out_files[d]
             /\ err_files'[d] = err_files[d]
       /\ (sdist_files[d] # "missing" /\ ~Retrieving(d)) =>
             /\ ~RetrieveStarts(d)
             /\ sdist_files'[d] = sdist_files[d]

\* one run starts at most one blocking call for a package: a dist is queued
\* only when the pool is set up and run.sh starts only for a queued dist; the
\* download loop only moves forward and leaves a package after urlretrieve
OncePerRun ==
    /\ \A d \in Dists :
          /\ (task[d] # "queued" /\ task'[d] = "queued") => pc = "start"
          /\ HookStarts(d) => task[d] = "queued"
    /\ (pc \in {"download", "urlretrieve"} /\ pc' \in {"download", "urlretrieve"})
          => (/\ num' >= num
              /\ pc = "urlretrieve" => (num' = num + 1 /\ pc' = "download"))

\* C13 as stated: across any sequence of batch runs, with runs that fail or
\* are interrupted, the download and the build-hook collaborator attempt each
\* package at most once, and a package whose artifact exists is skipped with
\* no download or subprocess started and its artifact unchanged.
C13_AtMostOneAttempt == [][AttemptedOnce /\ ArtifactKept]_vars

\* C13 amended: a package whose artifact exists ({dist}.out for the build
\* hook, the sdist file for the download) is skipped with no subprocess and no
\* urlretrieve started and its files unchanged, and one run starts at most one
\* blocking call per package; a package without artifact is attempted again
\* by every later run.
C13_ExistingArtifactSkipped == [][ArtifactKept /\ OncePerRun]_vars

\* C13 witness: in a resumed batch the first dist, whose {dist}.out exists,
\* has been skipped while run.sh runs for the second, whose sdist an
\* interrupted download left partial.
C13_Witness ==
    /\ pc = "pool"
    /\ Len(packages) = 2
    /\ out_files[1].exists
    /\ task[1] = "skipped"
    /\ sdist_files[2] = "partial"
    /\ ~out_files[2].exists
    /\ task[2] = "run.sh"

\* the tables of 03_analyze.py before a step, as the report of a run so far
TablesSoFar ==
    [NoReport EXCEPT
        !.build_backend_families = build_backend_families,
        !.setuptools_formats = setuptools_formats,
        !.setuptools_wheel_deps = setuptools_wheel_deps,
        !.other_backends_using_setuptools = other_backends_using_setuptools]

\* the classification record that a step of 03_analyze.py has made
RecordMade == Package(family', backend', formats', dist'.requires, NoneList)

\* C14: on the same classification records the aggregation of 03_analyze.py
\* and those of 04_count.py and 06_count.py give the same
\* build_backend_families, setuptools_formats, setuptools_wheel_deps and
\* other_backends_using_setuptools, and fail on the same records.  Every step
\* of 03_analyze.py that classifies its directory changes the four tables as
\* one iteration of 04_count.py and of 06_count.py changes them for the
\* record made, and raises exactly when that iteration raises.
C14_SameAggregation ==
    [][(AnalyzeStep /\ ~ClassificationFailed') =>
          LET r4 == Count04(TablesSoFar, <<RecordMade>>)
              r6 == Count06(TablesSoFar, <<RecordMade>>)
          IN /\ Tables(r4) = counters'
             /\ Tables(r6) = counters'
             /\ (pc' = "failed") <=> (r4.error # NoError)
             /\ (pc' = "failed") <=> (r6.error # NoError)]_vars

\* the sum of the counts of a table
RECURSIVE SumOver(_, _)
SumOver(d, keys) ==
    IF keys = {} THEN 0
    ELSE LET k == CHOOSE x \in keys : TRUE
         IN d[k] + SumOver(d, keys \ {k})

Sum(d) == SumOver(d, DOMAIN d)

\* the sum of the cells of build_backend_families of the given families
SumCells(fams) ==
    Sum([f \in fams |-> Sum(build_backend_families[f])])

LegacyCells == SumCells((DOMAIN build_backend_families) \cap {"setuptools"})

OtherCells == SumCells((DOMAIN build_backend_families) \ {"setuptools"})

\* the records that a run has aggregated: the directories that 03_analyze.py
\* has classified, or the records of packages.json up to the one that raised
Aggregated ==
    IF script = "03_analyze"
    THEN ndists - (IF ClassificationFailed THEN 1 ELSE 0)
    ELSE IF pc = "failed"
    THEN CHOOSE n \in 1..Len(packages) :
            /\ CountOf(SubSeq(packages, 1, n)).error # NoError
            /\ CountOf(SubSeq(packages, 1, n - 1)).error = NoError
    ELSE Len(packages)

\* the records of packages.json that obey the test
Records(Test(_)) == {k \in 1..Len(packages) : Test(packages[k])}

IsLegacy(package) == package.family = "setuptools"

LegacyWithWheel(package) == IsLegacy(package) /\ HasWheel(package.requires)

\* C15: every aggregated record has contributed to exactly one cell of
\* build_backend_families.  The cells sum to the number of records aggregated,
\* setuptools_formats sums to the cells of the family setuptools,
\* setuptools_wheel_deps and setuptools_formats count records of that family
\* only, and other_backends_using_setuptools counts records of the other
\* families only, under the name of their family.
C15_OneCellPerRecord ==
    (script \in {"03_analyze", "04_count", "06_count"}) =>
       /\ LegacyCells + OtherCells = Aggregated
       /\ Sum(setuptools_formats) = LegacyCells
       /\ setuptools_wheel_deps <= LegacyCells
       /\ Sum(other_backends_using_setuptools) <= OtherCells
       /\ "setuptools" \notin DOMAIN other_backends_using_setuptools
       /\ \A f \in DOMAIN other_backends_using_setuptools :
             /\ f \in DOMAIN build_backend_families
             /\ other_backends_using_setuptools[f]
                  <= Sum(build_backend_families[f])
       /\ (script = "03_analyze" /\ Aggregated = 1 /\ family = "setuptools") =>
             other_backends_using_setuptools = EmptyDict
       /\ (script = "03_analyze" /\ Aggregated = 1 /\ family # "setuptools") =>
             setuptools_formats = EmptyDict /\ setuptools_wheel_deps = 0
       /\ (script \in {"04_count", "06_count"} /\ pc = "done") =>
             /\ LegacyCells = Cardinality(Records(IsLegacy))
             /\ setuptools_wheel_deps = Cardinality(Records(LegacyWithWheel))
             /\ \A k \in 1..Len(packages) :
                   Get2(build_backend_families, packages[k].family,
                        packages[k].backend) >= 1

\* C15 witness: 04_count.py has aggregated two records of the family
\* setuptools, one of them with wheel, and one of pdm that names setuptools.
C15_Witness ==
    /\ script = "04_count"
    /\ pc = "done"
    /\ Len(packages) = 3
    /\ LegacyCells = 2
    /\ OtherCells = 1
    /\ Sum(setuptools_formats) = 2
    /\ setuptools_wheel_deps = 1
    /\ other_backends_using_setuptools = Put(EmptyDict, "pdm", 1)

\* a step in which the worker of the dist returns from a failed attempt
AttemptFails(d) ==
    /\ task[d] \in {"run.sh", "run.py"}
    /\ task'[d] = "returned"
    /\ subp'[d] # 0

\* C16: under every interleaving of the workers of the pool, {dist}.out is
\* created only by the step in which run.py exits with status zero, in an
\* attempt whose run.sh has exited with status zero; an attempt in which
\* run.sh or run.py exits with another status returns with {dist}.out absent
\* and {dist}.err present, so that the merge step reads the package as
\* unknown and the next run starts run.sh for it instead of skipping it.
C16_OutOnlyAfterBothSucceed ==
    [][\A d \in Dists :
         /\ task[d] = "run.py" => subp[d] = 0
         /\ out_files'[d] # out_files[d] =>
               /\ ~out_files[d].exists
               /\ task[d] = "run.py"
               /\ subp'[d] = 0
               /\ task'[d] = "returned"
         /\ AttemptFails(d) =>
               /\ ~out_files'[d].exists
               /\ err_files'[d]
               /\ ReadOut(out_files'[d]) = NoneList
         /\ (pc = "pool" /\ task[d] = "queued" /\ err_files[d]
               /\ ~out_files[d].exists) =>
               /\ ENABLED ProcessSetup(d)
               /\ ~ENABLED ProcessSkip(d)]_vars

\* C16 witness: two workers of one pool have returned, the first from an
\* attempt whose run.sh or run.py failed, with {dist}.err and no {dist}.out,
\* the second from an attempt that wrote {dist}.out.
C16_Witness ==
    /\ pc = "pool"
    /\ Len(packages) = 2
    /\ task[1] = "returned"
    /\ subp[1] = 1
    /\ err_files[1]
    /\ ~out_files[1].exists
    /\ task[2] = "returned"
    /\ subp[2] = 0
    /\ out_files[2].exists

====
